---- MODULE Spec2Model ----
(***************************************************************************)
(* Model of the booking server (src/server/index.js) with its two mongoose *)
(* collections (AvailableSlot, Booking), the in-memory admin session set   *)
(* and the HTTP handlers as request processes.  A handler runs atomically  *)
(* up to each `await`; every awaited store call is one step of its own, so *)
(* handlers of different requests interleave at their store calls.         *)
(***************************************************************************)
EXTENDS Integers, Sequences, FiniteSets, TLC

\* ------------------------------------------------------------------ bounds
MaxReq == 2          \* pooled requests under way at the same time
MaxSlotId == 2       \* slot ObjectIds the store hands out
MaxBookingId == 2    \* booking ObjectIds the store hands out
MaxToken == 1        \* session tokens Login mints
MaxSessions == 3     \* session tokens Login mints in SpecSession
RaceReq == 3         \* requests of one batch in the race specifications
MaxSort == 3         \* slots in the stores the sorted lists are drawn from

\* ------------------------------------------------------- program constants
ADMIN_PASSWORD == "admin123"
CONNECTED == 1       \* mongoose.connection.readyState of a live connection
DUPLICATE_KEY == 11000   \* error.code of a unique-index violation

\* ---------------------------------------------------------------- requests
\* Solo is a request that runs while no other request is under way; Pool are
\* requests that interleave freely and are reused; Batch are the requests of
\* one batch, each issued once, whose statuses are kept to be counted.
Solo == 0
Pool == 1..MaxReq
Batch == (MaxReq + 1)..(MaxReq + RaceReq)
Req == {Solo} \cup Pool \cup Batch

\* ------------------------------------------------------------ input domains
Dates == <<"2024-06-01">>                    \* ascending, as strings compare
Times == <<"09:00", "14:30">>
ValidDates == {Dates[i] : i \in 1..Len(Dates)}
ValidTimes == {Times[i] : i \in 1..Len(Times)}

\* The dates and times a store may hold (the server takes any non-empty
\* string), each list ascending as JavaScript and MongoDB compare strings:
\* "14:30" < "9:00" because "1" < "9".
DateOrder == <<"2024-06-01", "2024-06-02">>
TimeOrder == <<"09:00", "14:30", "9:00">>
BadId == -1                                   \* a string that is no ObjectId
NoId == 0                                     \* a missing or empty id
Undefined == "undefined"                      \* a field the body lacks

\* An Authorization header: absent, the empty string, a token on its own,
\* or "Bearer " and a token (tok = 0 is the empty string).
NoHeader == [present |-> FALSE, bearer |-> FALSE, tok |-> 0]
EmptyHeader == [present |-> TRUE, bearer |-> FALSE, tok |-> 0]
Raw(t) == [present |-> TRUE, bearer |-> FALSE, tok |-> t]
Bearer(t) == [present |-> TRUE, bearer |-> TRUE, tok |-> t]

\* every kind of input, well formed or not, with at most n tokens minted
AnyInput(n) ==
  [headers |-> {NoHeader, EmptyHeader} \cup {Raw(t) : t \in 1..n}
                 \cup {Bearer(t) : t \in 0..n},
   passwords |-> {"", ADMIN_PASSWORD, "wrong"},
   dates |-> {Undefined, ""} \cup ValidDates,
   times |-> {Undefined, ""} \cup ValidTimes,
   slotIds |-> {BadId, NoId} \cup 1..MaxSlotId,
   slotParams |-> {BadId} \cup 1..MaxSlotId,
   bookingParams |-> {BadId} \cup 1..MaxBookingId,
   names |-> {Undefined, "", "Jane Doe"},
   emails |-> {Undefined, "", "jane@example.com"},
   phones |-> {Undefined, "", "555"},
   tokens |-> n, slots |-> MaxSlotId, bookings |-> MaxBookingId]

\* the requests of a well-behaved client
WellFormed(n) ==
  [headers |-> {Bearer(t) : t \in 1..n},
   passwords |-> {ADMIN_PASSWORD},
   dates |-> ValidDates,
   times |-> ValidTimes,
   slotIds |-> 1..MaxSlotId,
   slotParams |-> 1..MaxSlotId,
   bookingParams |-> 1..MaxBookingId,
   names |-> {"Jane Doe"},
   emails |-> {"jane@example.com"},
   phones |-> {Undefined},
   tokens |-> n, slots |-> MaxSlotId, bookings |-> MaxBookingId]

VARIABLES
  slots,          \* the AvailableSlot collection
  bookings,       \* the Booking collection
  adminSessions,  \* the Set of active session tokens
  readyState,     \* mongoose.connection.readyState
  nextId,         \* the next ObjectId of each collection, the next token
  req,            \* the requests the server is working on
  sent,           \* the response the last step sent, if it sent one
  newSlot         \* the slot form of the admin panel, in the browser

vars ==
  <<slots, bookings, adminSessions, readyState, nextId, req, sent, newSlot>>

\* -------------------------------------------------------------- the stores
\* a slot created as not available
SlotUnavailable(i, d, t) ==
  [id |-> i, date |-> d, time |-> t, isAvailable |-> FALSE]

Slot(i, d, t) == [id |-> i, date |-> d, time |-> t, isAvailable |-> TRUE]

\* a booking whose date and time are not taken from the slot
NewBookingNoCopy(i, s, d, t, n, e, p) ==
  [id |-> i, slotId |-> s, date |-> Undefined, time |-> Undefined,
   clientName |-> n, clientEmail |-> e, clientPhone |-> p]

NewBooking(i, s, d, t, n, e, p) ==
  [id |-> i, slotId |-> s, date |-> d, time |-> t,
   clientName |-> n, clientEmail |-> e, clientPhone |-> p]

connected == readyState = CONNECTED

\* AvailableSlot.findById / findOne and Booking.findOne as sets of matches
SlotsById(i) == {s \in slots : s.id = i}
SlotsByDateTime(d, t) == {s \in slots : s.date = d /\ s.time = t}
\* a lookup of bookings that leaves the slotId filter out
BookingsOfAnySlot(i) == bookings

BookingsBySlot(i) == {b \in bookings : b.slotId = i}
BookingsById(i) == {b \in bookings : b.id = i}

\* the slots that exist and that no Booking references, as the stores stand
FreeSlotIds ==
  {s.id : s \in {x \in slots : \A b \in bookings : b.slotId # x.id}}

\* ---------------------------------------------- the admin panel's slot form
\* Strings of the form as sequences of characters.
HourOptions == 12
MinuteOptions == 60
DigitChars == <<"0", "1", "2", "3", "4", "5", "6", "7", "8", "9">>

\* useState({ date: '', time: '' })
EmptyForm == [date |-> <<>>, time |-> <<>>]

\* n.toString() of a number below 100
toString(n) ==
  IF n < 10 THEN <<DigitChars[n + 1]>>
  ELSE <<DigitChars[(n \div 10) + 1], DigitChars[(n % 10) + 1]>>

\* s.padStart(2, '0')
padStart(s) == IF Len(s) = 0 THEN <<"0", "0">>
               ELSE IF Len(s) = 1 THEN <<"0">> \o s
               ELSE s

\* parseInt(s) of a string of digits
RECURSIVE parseInt(_)
parseInt(s) ==
  IF s = <<>> THEN 0
  ELSE 10 * parseInt(SubSeq(s, 1, Len(s) - 1))
         + (CHOOSE d \in 0..9 : DigitChars[d + 1] = s[Len(s)])

\* time.split(':')[0] and time.split(':')[1] of a time with a colon
HourPart(t) ==
  SubSeq(t, 1, (CHOOSE i \in 1..Len(t) : t[i] = ":") - 1)
MinutePart(t) ==
  SubSeq(t, (CHOOSE i \in 1..Len(t) : t[i] = ":") + 1, Len(t))

\* a || b on strings
OrElse(a, b) == IF a = <<>> THEN b ELSE a

\* parseInt(newSlot.time.split(':')[0] || '0')
Hour24(t) == parseInt(OrElse(HourPart(t), <<"0">>))

\* the option values of the three selects
HourValues == {toString(h) : h \in 1..HourOptions}
MinuteValues == {padStart(toString(m)) : m \in 0..(MinuteOptions - 1)}
MeridiemValues == {"AM", "PM"}

\* the value props of the three selects
DisplayedHour(t) ==
  IF t = <<>> THEN toString(12)
  ELSE IF Hour24(t) = 0 THEN toString(12)
  ELSE IF Hour24(t) > 12 THEN toString(Hour24(t) - 12)
  ELSE toString(Hour24(t))
DisplayedMinute(t) ==
  IF t = <<>> THEN <<"0", "0">> ELSE OrElse(MinutePart(t), <<"0", "0">>)
DisplayedMeridiem(t) ==
  IF t = <<>> THEN "AM" ELSE IF Hour24(t) >= 12 THEN "PM" ELSE "AM"

\* hour24 of the hour and AM/PM handlers, from hour12 and isPM
ToHour24(hour12, isPM) ==
  LET hour24 == IF hour12 = 12 THEN 0 ELSE hour12
  IN  IF isPM /\ hour24 # 0 THEN hour24 + 12 ELSE hour24

\* the time the onChange of the hour select stores for option value v
OnHourChange(t, v) ==
  LET hour12 == parseInt(v)
      minute == IF t # <<>> THEN OrElse(MinutePart(t), <<"0", "0">>)
                ELSE <<"0", "0">>
      isPM == IF t # <<>> THEN Hour24(t) >= 12 ELSE FALSE
  IN  padStart(toString(ToHour24(hour12, isPM))) \o <<":">> \o minute

\* the onChange of the minute select
OnMinuteChange(t, v) ==
  LET minute == padStart(v)
      hour == IF t # <<>> THEN OrElse(HourPart(t), <<"0", "0">>)
              ELSE <<"0", "0">>
  IN  hour \o <<":">> \o minute

\* the onChange of the AM/PM select
OnMeridiemChange(t, v) ==
  LET isPM == v = "PM"
      hour12 == IF t # <<>>
                THEN IF Hour24(t) = 0 THEN 12
                     ELSE IF Hour24(t) > 12 THEN Hour24(t) - 12
                     ELSE Hour24(t)
                ELSE 12
      minute == IF t # <<>> THEN OrElse(MinutePart(t), <<"0", "0">>)
                ELSE <<"0", "0">>
  IN  padStart(toString(ToHour24(hour12, isPM))) \o <<":">> \o minute

\* ------------------------------------------------------------ the requests
\* What the response of the step before says a request comes after: the
\* slot a cancellation freed or the slot a creation added.
NoPrev == [op |-> "none", slotId |-> NoId, date |-> "", time |-> "",
           wasEmpty |-> FALSE]

\* A request: its inputs, the handler's position and locals, its response.
\* at, alone, wrote, gate, freed, wasEmpty, after and sessBefore are
\* history: the await the response came from; the request ran while no other
\* did; the handler changed a store; the verdict of requireAdmin; the slot
\* of the booking it removed; the Slot Store was empty before its insert;
\* the step before the request; the session set before the handler ran.
\* seenFree is history too: the slots that were free at some moment since a
\* ListBookableSlots request came in.
Idle == [op |-> "none", pc |-> "idle", hdr |-> NoHeader, id |-> NoId,
         date |-> "", time |-> "", clientName |-> "", clientEmail |-> "",
         clientPhone |-> "", password |-> "", slot |-> <<>>,
         gotSlots |-> FALSE, gotBookings |-> FALSE,
         allSlots |-> {}, allBookings |-> {},
         status |-> 0, body |-> <<>>, at |-> "idle",
         alone |-> FALSE, wrote |-> FALSE, gate |-> "none", freed |-> NoId,
         wasEmpty |-> FALSE, after |-> NoPrev, sessBefore |-> {},
         seenFree |-> {}]

\* the response of r to request q
Response(r, q, s, b) ==
  [q EXCEPT !.pc = "done", !.status = s, !.body = b, !.at = q.pc,
            !.alone = (r = Solo)]

Free(r) == req[r].pc = "idle"

\* a ListBookableSlots request under way sees the stores as they stand
\* before each step of any handler
Seen(q) ==
  IF q.op = "bookable" /\ q.pc = "all"
  THEN [q EXCEPT !.seenFree = @ \cup FreeSlotIds]
  ELSE q

\* the handler of r goes on to its next await; nothing is sent
Go(r, q) ==
  /\ req' = [x \in Req |-> Seen(IF x = r THEN q ELSE req[x])]
  /\ sent' = Idle
  /\ UNCHANGED newSlot

\* res.status(s).json(b): a request of a batch keeps its response, any
\* other makes room for the next request
Reply(r, q, s, b) ==
  /\ req' = [x \in Req |->
               IF x # r THEN Seen(req[x])
               ELSE IF r \in Batch THEN Response(r, Seen(q), s, b)
               ELSE Idle]
  /\ sent' = Response(r, Seen(q), s, b)
  /\ UNCHANGED newSlot

\* res.status(s).json(b) of a handler that has changed a store
ReplyShared(r, q, s, b) == Reply(r, [q EXCEPT !.wrote = TRUE], s, b)

Init ==
  /\ slots = {}
  /\ bookings = {}
  /\ adminSessions = {}
  /\ readyState = 0
  /\ nextId = [slot |-> 1, booking |-> 1, token |-> 1]
  /\ req = [r \in Req |-> Idle]
  /\ sent = Idle
  /\ newSlot = EmptyForm

\* ------------------------------------------------------- session registry
\* authHeader.replace('Bearer ', ''): the header without its prefix, a
\* header that has no prefix as it is
SessionToken(h) == h.tok

\* !authHeader: the header is absent or the empty string
NoAuthHeader(h) == ~h.present \/ (~h.bearer /\ h.tok = 0)

\* a gate that looks at the header and not at the session set
requireAdminAnyHeader(h) == ~NoAuthHeader(h)

\* requireAdmin calls next() exactly when this holds
requireAdmin(h) == ~NoAuthHeader(h) /\ SessionToken(h) \in adminSessions

Gate(h) == IF requireAdmin(h) THEN "passed" ELSE "denied"

LoginStatus(pw) ==
  IF pw = "" THEN 400 ELSE IF pw = ADMIN_PASSWORD THEN 200 ELSE 401

\* a login that registers its token whatever the password
LoginSessionsAlways(pw, tok) == adminSessions \cup {tok}

\* a login that ends every other session
LoginSessionsOnly(pw, tok) ==
  IF LoginStatus(pw) = 200 THEN {tok} ELSE adminSessions

LoginSessions(pw, tok) ==
  IF LoginStatus(pw) = 200 THEN adminSessions \cup {tok} ELSE adminSessions

\* POST /api/admin/login
Login(r, pw) ==
  /\ Free(r)
  /\ adminSessions' = LoginSessions(pw, nextId.token)
  /\ nextId' = [nextId EXCEPT
                  !.token = IF LoginStatus(pw) = 200 THEN @ + 1 ELSE @]
  /\ Reply(r, [Idle EXCEPT !.op = "login", !.password = pw,
                           !.sessBefore = adminSessions],
           LoginStatus(pw),
           IF LoginStatus(pw) = 200 THEN <<nextId.token>> ELSE <<>>)
  /\ UNCHANGED <<slots, bookings, readyState>>

\* a logout that clears the whole set
LogoutSessionsAll(h) == {}

\* a logout that leaves the set as it is
LogoutSessionsNone(h) == adminSessions

LogoutSessions(h) ==
  IF ~h.present \/ SessionToken(h) = 0
  THEN adminSessions
  ELSE adminSessions \ {SessionToken(h)}

\* POST /api/admin/logout
Logout(r, h) ==
  /\ Free(r)
  /\ adminSessions' = LogoutSessions(h)
  /\ Reply(r, [Idle EXCEPT !.op = "logout", !.hdr = h,
                           !.sessBefore = adminSessions], 200, <<>>)
  /\ UNCHANGED <<slots, bookings, readyState, nextId>>

\* GET /api/admin/check
AdminCheck(r, h) ==
  /\ Free(r)
  /\ Reply(r, [Idle EXCEPT !.op = "check", !.hdr = h, !.gate = Gate(h)],
           IF requireAdmin(h) THEN 200 ELSE 401, <<>>)
  /\ UNCHANGED <<slots, bookings, adminSessions, readyState, nextId>>

\* The process is restarted: adminSessions is a new Set(), the requests
\* under way are gone and connectDB() starts over; the stores are durable,
\* and a token minted later differs from every token minted before.  The
\* open connections are reset, which is what the clients see of it.
\* a restart that keeps the session set
RestartKeepsSessions ==
  /\ adminSessions' = adminSessions
  /\ readyState' = 0
  /\ req' = [r \in Req |-> Idle]
  /\ sent' = [Idle EXCEPT !.op = "restart"]
  /\ UNCHANGED <<slots, bookings, nextId, newSlot>>

Restart ==
  /\ adminSessions' = {}
  /\ readyState' = 0
  /\ req' = [r \in Req |-> Idle]
  /\ sent' = [Idle EXCEPT !.op = "restart"]
  /\ UNCHANGED <<slots, bookings, nextId, newSlot>>

\* ------------------------------------------------------------ environment
\* the connection to MongoDB comes up (connectDB) or is lost
Connect ==
  /\ ~connected
  /\ readyState' = CONNECTED
  /\ req' = req
  /\ sent' = Idle
  /\ UNCHANGED <<slots, bookings, adminSessions, nextId, newSlot>>

Disconnect ==
  /\ connected
  /\ readyState' = 0
  /\ req' = req
  /\ sent' = Idle
  /\ UNCHANGED <<slots, bookings, adminSessions, nextId, newSlot>>

\* ------------------------------------------------------ store call results
\* what an awaited store call throws: nothing, or an error with its code
NoError == [name |-> "", code |-> 0]
NetworkError == [name |-> "MongoNetworkError", code |-> 0]
CastError == [name |-> "CastError", code |-> 0]
DuplicateKeyError == [name |-> "MongoServerError", code |-> DUPLICATE_KEY]

\* a query: fails when the connection is gone or the id is no ObjectId
QueryError(i) ==
  IF ~connected THEN NetworkError
  ELSE IF i = BadId THEN CastError
  ELSE NoError

\* newSlot.save() on a collection without the unique index on (date, time)
SlotSaveErrorNoIndex(d, t) == IF ~connected THEN NetworkError ELSE NoError

\* availableSlotSchema.index({date, time}, {unique: true}) at newSlot.save()
SlotSaveError(d, t) ==
  IF ~connected THEN NetworkError
  ELSE IF SlotsByDateTime(d, t) # {} THEN DuplicateKeyError
  ELSE NoError

\* newBooking.save() on a collection without the unique index on slotId
BookingSaveErrorNoIndex(i) == IF ~connected THEN NetworkError ELSE NoError

\* a unique index that admits one booking per client instead of per slot
BookingSaveErrorPerClient(i) ==
  IF ~connected THEN NetworkError
  ELSE IF bookings # {} THEN DuplicateKeyError
  ELSE NoError

\* bookingSchema.index({slotId}, {unique: true}) at newBooking.save()
BookingSaveError(i) ==
  IF ~connected THEN NetworkError
  ELSE IF BookingsBySlot(i) # {} THEN DuplicateKeyError
  ELSE NoError

\* catch blocks that do not look at error.code
CatchCreateNoCode(err) == 500

\* the catch blocks of the two create handlers
CatchCreate(err) == IF err.code = DUPLICATE_KEY THEN 400 ELSE 500

\* the JSON of a slot / booking document
FormatSlot(s) ==
  [id |-> s.id, date |-> s.date, time |-> s.time,
   isAvailable |-> s.isAvailable]

\* (createdAt is not modelled)
FormatBooking(b) ==
  [id |-> b.id, slotId |-> b.slotId, date |-> b.date, time |-> b.time,
   clientName |-> b.clientName, clientEmail |-> b.clientEmail,
   clientPhone |-> b.clientPhone]

\* slots.map(...) and bookings.map(...) of the list routes
FormattedSlots(q) == [i \in 1..Len(q) |-> FormatSlot(q[i])]
FormattedBookings(q) == [i \in 1..Len(q) |-> FormatBooking(q[i])]

\* a protected handler under way: the header has served its purpose
Passed(q, pc) == [q EXCEPT !.pc = pc, !.hdr = NoHeader]

\* !x of a string field of the body: it is missing or empty
Blank(x) == x \in {Undefined, ""}

\* a phone stored as the body gives it
PhoneAsGiven(p) == p

\* clientPhone || ''
PhoneOrEmpty(p) == IF Blank(p) THEN "" ELSE p

\* --------------------------------------------- POST /api/available-slots
\* an entry that looks at the body before it looks at the connection
CreateSlotEntryBodyFirst(h, d, t) ==
  IF ~requireAdmin(h) THEN 401
  ELSE IF Blank(d) \/ Blank(t) THEN 400
  ELSE IF ~connected THEN 503
  ELSE 200

\* requireAdmin, then the checks before the first await, in the order of
\* the code: the status of the first that fails, 200 when none does
CreateSlotEntry(h, d, t) ==
  IF ~requireAdmin(h) THEN 401
  ELSE IF ~connected THEN 503
  ELSE IF Blank(d) \/ Blank(t) THEN 400
  ELSE 200

CreateSlotStart(r, h, d, t) ==
  /\ Free(r)
  /\ LET q == [Idle EXCEPT !.op = "createSlot", !.hdr = h, !.date = d,
                           !.time = t, !.gate = Gate(h)]
     IN  IF CreateSlotEntry(h, d, t) # 200
         THEN Reply(r, q, CreateSlotEntry(h, d, t), <<>>)
         ELSE Go(r, Passed(q, "findOne"))
  /\ UNCHANGED <<slots, bookings, adminSessions, readyState, nextId>>

\* await AvailableSlot.findOne({ date, time })
CreateSlotFindOne(r) ==
  /\ req[r].op = "createSlot" /\ req[r].pc = "findOne"
  /\ LET q == req[r]
     IN  IF QueryError(NoId) # NoError
         THEN Reply(r, q, CatchCreate(QueryError(NoId)), <<>>)
         ELSE IF SlotsByDateTime(q.date, q.time) # {}
         THEN Reply(r, q, 400, <<>>)
         ELSE Go(r, [q EXCEPT !.pc = "save"])
  /\ UNCHANGED <<slots, bookings, adminSessions, readyState, nextId>>

\* await newSlot.save()
CreateSlotSave(r) ==
  /\ req[r].op = "createSlot" /\ req[r].pc = "save"
  /\ LET q == req[r]
         err == SlotSaveError(q.date, q.time)
         new == Slot(nextId.slot, q.date, q.time)
     IN  IF err # NoError
         THEN /\ Reply(r, q, CatchCreate(err), <<>>)
              /\ UNCHANGED <<slots, nextId>>
         ELSE /\ slots' = slots \cup {new}
              /\ nextId' = [nextId EXCEPT !.slot = @ + 1]
              /\ ReplyShared(r, [q EXCEPT !.wasEmpty = (slots = {})], 200,
                             <<FormatSlot(new)>>)
  /\ UNCHANGED <<bookings, adminSessions, readyState>>

\* ------------------------------------------ DELETE /api/available-slots/:id
DeleteSlotStart(r, h, i) ==
  /\ Free(r)
  /\ LET q == [Idle EXCEPT !.op = "deleteSlot", !.hdr = h, !.id = i,
                           !.gate = Gate(h)]
     IN  IF ~requireAdmin(h) THEN Reply(r, q, 401, <<>>)
         ELSE IF ~connected THEN Reply(r, q, 503, <<>>)
         ELSE Go(r, Passed(q, "findBooking"))
  /\ UNCHANGED <<slots, bookings, adminSessions, readyState, nextId>>

\* the lookup done with the slot id taken for a booking id
DeleteSlotBookedById(i) == BookingsById(i) # {}

\* Booking.findOne({ slotId: id }) finds a booking of the slot
DeleteSlotBooked(i) == BookingsBySlot(i) # {}

\* await Booking.findOne({ slotId: id })
DeleteSlotFindBooking(r) ==
  /\ req[r].op = "deleteSlot" /\ req[r].pc = "findBooking"
  /\ LET q == req[r]
     IN  IF QueryError(q.id) # NoError THEN Reply(r, q, 500, <<>>)
         ELSE IF DeleteSlotBooked(q.id) THEN Reply(r, q, 400, <<>>)
         ELSE Go(r, [q EXCEPT !.pc = "delete"])
  /\ UNCHANGED <<slots, bookings, adminSessions, readyState, nextId>>

\* await AvailableSlot.findByIdAndDelete(id)
DeleteSlotDelete(r) ==
  /\ req[r].op = "deleteSlot" /\ req[r].pc = "delete"
  /\ LET q == req[r]
     IN  IF QueryError(q.id) # NoError
         THEN /\ Reply(r, q, 500, <<>>)
              /\ UNCHANGED slots
         ELSE IF SlotsById(q.id) = {}
         THEN /\ Reply(r, q, 404, <<>>)
              /\ UNCHANGED slots
         ELSE /\ slots' = slots \ SlotsById(q.id)
              /\ ReplyShared(r, q, 200, <<>>)
  /\ UNCHANGED <<bookings, adminSessions, readyState, nextId>>

\* ------------------------------------------------------ POST /api/bookings
CreateBookingStart(r, i, n, e, p) ==
  /\ Free(r)
  /\ LET q == [Idle EXCEPT !.op = "createBooking", !.id = i,
                 !.clientName = n, !.clientEmail = e, !.clientPhone = p]
     IN  IF ~connected THEN Reply(r, q, 503, <<>>)
         ELSE IF i = NoId \/ Blank(n) \/ Blank(e)
         THEN Reply(r, q, 400, <<>>)
         ELSE Go(r, [q EXCEPT !.pc = "findSlot"])
  /\ UNCHANGED <<slots, bookings, adminSessions, readyState, nextId>>

\* await AvailableSlot.findById(slotId)
CreateBookingFindSlot(r) ==
  /\ req[r].op = "createBooking" /\ req[r].pc = "findSlot"
  /\ LET q == req[r]
     IN  IF QueryError(q.id) # NoError
         THEN Reply(r, q, CatchCreate(QueryError(q.id)), <<>>)
         ELSE IF SlotsById(q.id) = {} THEN Reply(r, q, 404, <<>>)
         ELSE Go(r, [q EXCEPT !.pc = "findBooking",
                       !.slot = <<CHOOSE s \in SlotsById(q.id) : TRUE>>])
  /\ UNCHANGED <<slots, bookings, adminSessions, readyState, nextId>>

\* await Booking.findOne({ slotId })
CreateBookingFindBooking(r) ==
  /\ req[r].op = "createBooking" /\ req[r].pc = "findBooking"
  /\ LET q == req[r]
     IN  IF QueryError(q.id) # NoError
         THEN Reply(r, q, CatchCreate(QueryError(q.id)), <<>>)
         ELSE IF BookingsBySlot(q.id) # {} THEN Reply(r, q, 400, <<>>)
         ELSE Go(r, [q EXCEPT !.pc = "save"])
  /\ UNCHANGED <<slots, bookings, adminSessions, readyState, nextId>>

\* a save that also marks the booked slot as no longer available
SlotsAfterBookingMarked(i) ==
  {IF s.id = i THEN [s EXCEPT !.isAvailable = FALSE] ELSE s : s \in slots}

\* the Slot Store after the booking of slot i is saved: the handler writes
\* to the Booking Store only
SlotsAfterBooking(i) == slots

\* await newBooking.save()
CreateBookingSave(r) ==
  /\ req[r].op = "createBooking" /\ req[r].pc = "save"
  /\ LET q == req[r]
         err == BookingSaveError(q.id)
         new == NewBooking(nextId.booking, q.id, q.slot[1].date,
                           q.slot[1].time, q.clientName, q.clientEmail,
                           PhoneOrEmpty(q.clientPhone))
     IN  IF err # NoError
         THEN /\ Reply(r, q, CatchCreate(err), <<>>)
              /\ UNCHANGED <<slots, bookings, nextId>>
         ELSE /\ bookings' = bookings \cup {new}
              /\ nextId' = [nextId EXCEPT !.booking = @ + 1]
              /\ slots' = SlotsAfterBooking(q.id)
              /\ ReplyShared(r, q, 200, <<FormatBooking(new)>>)
  /\ UNCHANGED <<adminSessions, readyState>>

\* -------------------------------------------------- DELETE /api/bookings/:id
CancelBookingStart(r, h, i) ==
  /\ Free(r)
  /\ LET q == [Idle EXCEPT !.op = "cancelBooking", !.hdr = h, !.id = i,
                           !.gate = Gate(h)]
     IN  IF ~requireAdmin(h) THEN Reply(r, q, 401, <<>>)
         ELSE IF ~connected THEN Reply(r, q, 503, <<>>)
         ELSE Go(r, Passed(q, "delete"))
  /\ UNCHANGED <<slots, bookings, adminSessions, readyState, nextId>>

\* a cancellation that does not look at what findByIdAndDelete returned
CancelBookingDeleteUnchecked(r) ==
  /\ req[r].op = "cancelBooking" /\ req[r].pc = "delete"
  /\ LET q == req[r]
     IN  IF QueryError(q.id) # NoError
         THEN /\ Reply(r, q, 500, <<>>)
              /\ UNCHANGED bookings
         ELSE /\ bookings' = bookings \ BookingsById(q.id)
              /\ ReplyShared(r, q, 200, <<>>)
  /\ UNCHANGED <<slots, adminSessions, readyState, nextId>>

\* await Booking.findByIdAndDelete(id)
CancelBookingDelete(r) ==
  /\ req[r].op = "cancelBooking" /\ req[r].pc = "delete"
  /\ LET q == req[r]
     IN  IF QueryError(q.id) # NoError
         THEN /\ Reply(r, q, 500, <<>>)
              /\ UNCHANGED bookings
         ELSE IF BookingsById(q.id) = {}
         THEN /\ Reply(r, q, 404, <<>>)
              /\ UNCHANGED bookings
         ELSE /\ bookings' = bookings \ BookingsById(q.id)
              /\ ReplyShared(r, [q EXCEPT !.freed =
                                   (CHOOSE b \in BookingsById(q.id) :
                                      TRUE).slotId],
                             200, <<>>)
  /\ UNCHANGED <<slots, adminSessions, readyState, nextId>>

\* ------------------------------------------------------------- read views
\* position of a string in an ascending list: how the store compares strings
Rank(seq, x) == CHOOSE i \in 1..Len(seq) : seq[i] = x

\* sort({ date: 1, time: 1 }); documents with equal keys in _id order
\* an order by time first and date second
BeforeByTime(a, b) ==
  \/ Rank(TimeOrder, a.time) < Rank(TimeOrder, b.time)
  \/ /\ a.time = b.time
     /\ \/ Rank(DateOrder, a.date) < Rank(DateOrder, b.date)
        \/ a.date = b.date /\ a.id < b.id

Before(a, b) ==
  \/ Rank(DateOrder, a.date) < Rank(DateOrder, b.date)
  \/ /\ a.date = b.date
     /\ \/ Rank(TimeOrder, a.time) < Rank(TimeOrder, b.time)
        \/ a.time = b.time /\ a.id < b.id

RECURSIVE SortByDateTime(_)
SortByDateTime(S) ==
  IF S = {} THEN <<>>
  ELSE LET m == CHOOSE x \in S : \A y \in S \ {x} : Before(x, y)
       IN  <<m>> \o SortByDateTime(S \ {m})

\* find() without sort: documents in _id order
RECURSIVE NaturalOrder(_)
NaturalOrder(S) ==
  IF S = {} THEN <<>>
  ELSE LET m == CHOOSE x \in S : \A y \in S : x.id <= y.id
       IN  <<m>> \o NaturalOrder(S \ {m})


\* the filter of /api/bookable-slots over the two query results
\* the set built from the bookings' own ids
BookedSlotIdsOwn(bs) == {b.id : b \in bs}

BookedSlotIds(bs) == {b.slotId : b \in bs}
Bookable(s, bs) == s.id \notin BookedSlotIds(bs)
BookableEntry(s) ==
  [id |-> s.id, date |-> s.date, time |-> s.time, isAvailable |-> TRUE]
BookableSlots(ss, bs) ==
  LET kept == NaturalOrder({s \in ss : Bookable(s, bs)})
  IN  [i \in 1..Len(kept) |-> BookableEntry(kept[i])]

\* the join of /api/all-slots-status; a later booking of the same slot
\* overwrites an earlier one in bookingMap
BookingInfo(b) ==
  [clientName |-> b.clientName, clientEmail |-> b.clientEmail,
   clientPhone |-> b.clientPhone]
\* a map keyed by the bookings' own ids
BookingMapGetById(bs, i) ==
  LET m == {b \in bs : b.id = i}
  IN  IF m = {} THEN <<>>
      ELSE <<BookingInfo(CHOOSE b \in m : \A c \in m : c.id <= b.id)>>
BookingMapGet(bs, i) ==
  LET m == {b \in bs : b.slotId = i}
  IN  IF m = {} THEN <<>>
      ELSE <<BookingInfo(CHOOSE b \in m : \A c \in m : c.id <= b.id)>>
StatusEntry(s, bs) ==
  [id |-> s.id, date |-> s.date, time |-> s.time,
   isBooked |-> BookingMapGet(bs, s.id) # <<>>,
   booking |-> BookingMapGet(bs, s.id)]
SlotsWithStatus(ss, bs) ==
  LET sorted == SortByDateTime(ss)
  IN  [i \in 1..Len(sorted) |-> StatusEntry(sorted[i], bs)]

\* what the response of the step before says a list request comes after
After ==
  IF sent.pc = "done" /\ sent.status = 200 /\ sent.op = "cancelBooking"
  THEN [NoPrev EXCEPT !.op = sent.op, !.slotId = sent.freed]
  ELSE IF sent.pc = "done" /\ sent.status = 200 /\ sent.op = "createSlot"
  THEN [NoPrev EXCEPT !.op = sent.op, !.slotId = sent.body[1].id,
                      !.date = sent.date, !.time = sent.time,
                      !.wasEmpty = sent.wasEmpty]
  ELSE NoPrev

\* a catch block of a public list route that answers with an error status
CatchListError(err) == 500

\* the catch blocks of the public list routes: res.status(200).json([])
CatchList(err) == 200

\* the catch block of GET /api/bookings
CatchListBookings(err) == 500

\* GET /api/available-slots
ListSlotsStart(r) ==
  /\ Free(r)
  /\ LET q == [Idle EXCEPT !.op = "listSlots", !.after = After]
     IN  IF ~connected THEN Reply(r, q, 200, <<>>)
         ELSE Go(r, [q EXCEPT !.pc = "find"])
  /\ UNCHANGED <<slots, bookings, adminSessions, readyState, nextId>>

ListSlotsFind(r) ==
  /\ req[r].op = "listSlots" /\ req[r].pc = "find"
  /\ IF QueryError(NoId) # NoError
     THEN Reply(r, req[r], CatchList(QueryError(NoId)), <<>>)
     ELSE Reply(r, req[r], 200, FormattedSlots(SortByDateTime(slots)))
  /\ UNCHANGED <<slots, bookings, adminSessions, readyState, nextId>>

\* GET /api/bookings
ListBookingsStart(r, h) ==
  /\ Free(r)
  /\ LET q == [Idle EXCEPT !.op = "listBookings", !.hdr = h,
                           !.gate = Gate(h)]
     IN  IF ~requireAdmin(h) THEN Reply(r, q, 401, <<>>)
         ELSE IF ~connected THEN Reply(r, q, 200, <<>>)
         ELSE Go(r, Passed(q, "find"))
  /\ UNCHANGED <<slots, bookings, adminSessions, readyState, nextId>>

ListBookingsFind(r) ==
  /\ req[r].op = "listBookings" /\ req[r].pc = "find"
  /\ IF QueryError(NoId) # NoError
     THEN Reply(r, req[r], CatchListBookings(QueryError(NoId)), <<>>)
     ELSE Reply(r, req[r], 200,
                FormattedBookings(SortByDateTime(bookings)))
  /\ UNCHANGED <<slots, bookings, adminSessions, readyState, nextId>>

\* GET /api/bookable-slots and GET /api/all-slots-status: Promise.all over
\* two queries the store answers in either order
JoinStart(r, o) ==
  /\ Free(r)
  /\ LET q == [Idle EXCEPT !.op = o, !.after = After]
     IN  IF ~connected THEN Reply(r, q, 200, <<>>)
         ELSE Go(r, [q EXCEPT !.pc = "all"])
  /\ UNCHANGED <<slots, bookings, adminSessions, readyState, nextId>>

JoinResult(q) ==
  IF q.op = "bookable" THEN BookableSlots(q.allSlots, q.allBookings)
  ELSE SlotsWithStatus(q.allSlots, q.allBookings)

\* a join that never sends its result
JoinAfterNoReply(r, q) == Go(r, q)

JoinAfter(r, q) ==
  IF q.gotSlots /\ q.gotBookings THEN Reply(r, q, 200, JoinResult(q))
  ELSE Go(r, q)

\* AvailableSlot.find() of the pair
JoinReadSlots(r) ==
  /\ req[r].op \in {"bookable", "allStatus"} /\ req[r].pc = "all"
  /\ ~req[r].gotSlots
  /\ IF QueryError(NoId) # NoError
     THEN Reply(r, req[r], CatchList(QueryError(NoId)), <<>>)
     ELSE JoinAfter(r, [req[r] EXCEPT !.gotSlots = TRUE,
                                      !.allSlots = slots])
  /\ UNCHANGED <<slots, bookings, adminSessions, readyState, nextId>>

\* Booking.find() of the pair
JoinReadBookings(r) ==
  /\ req[r].op \in {"bookable", "allStatus"} /\ req[r].pc = "all"
  /\ ~req[r].gotBookings
  /\ IF QueryError(NoId) # NoError
     THEN Reply(r, req[r], CatchList(QueryError(NoId)), <<>>)
     ELSE JoinAfter(r, [req[r] EXCEPT !.gotBookings = TRUE,
                                      !.allBookings = bookings])
  /\ UNCHANGED <<slots, bookings, adminSessions, readyState, nextId>>

\* ------------------------------------------------------ the specification
\* requests of route o under way
UnderWay(o) ==
  Cardinality({r \in Req : req[r].op = o /\ req[r].pc \notin {"idle", "done"}})

\* The steps request r can take with inputs from in, by kind of route.  A
\* creation starts only while the store has an id left for it, a login
\* succeeds only while tokens are left.
Sessions(r, in) ==
  \/ \E pw \in in.passwords :
       /\ LoginStatus(pw) = 200 => nextId.token <= in.tokens
       /\ Login(r, pw)
  \/ \E h \in in.headers : Logout(r, h)
  \/ \E h \in in.headers : AdminCheck(r, h)

Writes(r, in) ==
  \/ \E h \in in.headers, d \in in.dates, t \in in.times :
       /\ CreateSlotStart(r, h, d, t)
       /\ req'[r].pc = "findOne" =>
            nextId.slot + UnderWay("createSlot") <= in.slots
  \/ CreateSlotFindOne(r)
  \/ CreateSlotSave(r)
  \/ \E h \in in.headers, i \in in.slotParams : DeleteSlotStart(r, h, i)
  \/ DeleteSlotFindBooking(r)
  \/ DeleteSlotDelete(r)
  \/ \E i \in in.slotIds, n \in in.names, e \in in.emails, p \in in.phones :
       /\ CreateBookingStart(r, i, n, e, p)
       /\ req'[r].pc = "findSlot" =>
            nextId.booking + UnderWay("createBooking") <= in.bookings
  \/ CreateBookingFindSlot(r)
  \/ CreateBookingFindBooking(r)
  \/ CreateBookingSave(r)
  \/ \E h \in in.headers, i \in in.bookingParams : CancelBookingStart(r, h, i)
  \/ CancelBookingDelete(r)

Reads(r, in) ==
  \/ ListSlotsStart(r)
  \/ ListSlotsFind(r)
  \/ \E h \in in.headers : ListBookingsStart(r, h)
  \/ ListBookingsFind(r)
  \/ \E o \in {"bookable", "allStatus"} : JoinStart(r, o)
  \/ JoinReadSlots(r)
  \/ JoinReadBookings(r)

Handler(r, in) == Sessions(r, in) \/ Writes(r, in) \/ Reads(r, in)

\* the response on the wire reaches the client
Deliver ==
  /\ sent # Idle
  /\ sent' = Idle
  /\ UNCHANGED <<slots, bookings, adminSessions, readyState, nextId, req, newSlot>>

Quiet == \A r \in Pool \cup Batch : Free(r)

\* The server: the writes of well-behaved clients interleave at every await
\* while the connection comes and goes; a request of any route with any
\* input is served while no other request is under way, and a read may
\* come in right behind the response to the request before it.
Next ==
  \/ Deliver
  \/ sent = Idle /\ Free(Solo) /\ Connect
  \/ sent = Idle /\ Free(Solo) /\ Disconnect
  \/ sent = Idle /\ Free(Solo) /\ \E r \in Pool : Writes(r, WellFormed(MaxToken))
  \/ sent = Idle /\ Quiet /\ Handler(Solo, AnyInput(MaxToken))
  \/ sent # Idle /\ Quiet /\ ListSlotsStart(Solo)
  \/ sent # Idle /\ Quiet /\ JoinStart(Solo, "bookable")

Spec == Init /\ [][Next]_vars

\* The session routes on their own, with every kind of header and
\* password: the handlers have no await, so each request is one step, and a
\* request may come in right behind the response to the one before it; the
\* process may be restarted at any time.
NextSession ==
  \/ Deliver
  \/ Sessions(Solo, AnyInput(MaxSessions))
  \/ Restart

SpecSession == Init /\ [][NextSession]_vars

\* A batch of bookings: the store is connected and holds every slot, none
\* of them booked; each request of the batch is issued once, with valid
\* fields, and the requests interleave at every await.
InitBookRace ==
  /\ slots = {Slot(i, Dates[1], Times[i]) : i \in 1..Len(Times)}
  /\ bookings = {}
  /\ adminSessions = {}
  /\ readyState = CONNECTED
  /\ nextId = [slot |-> Len(Times) + 1, booking |-> 1, token |-> 1]
  /\ req = [r \in Req |-> Idle]
  /\ sent = Idle
  /\ newSlot = EmptyForm

NextBookRace ==
  \/ \E r \in Batch, i \in {s.id : s \in slots}, p \in {Undefined, "555"} :
       CreateBookingStart(r, i, "Jane Doe", "jane@example.com", p)
  \/ \E r \in Batch : CreateBookingFindSlot(r)
  \/ \E r \in Batch : CreateBookingFindBooking(r)
  \/ \E r \in Batch : CreateBookingSave(r)

SpecBookRace == InitBookRace /\ [][NextBookRace]_vars

\* A batch of slot creations: the store is connected and empty, the
\* operator is logged in; each request of the batch is issued once with the
\* operator's token and a non-empty date and time.
InitSlotRace ==
  /\ slots = {}
  /\ bookings = {}
  /\ adminSessions = {1}
  /\ readyState = CONNECTED
  /\ nextId = [slot |-> 1, booking |-> 1, token |-> 2]
  /\ req = [r \in Req |-> Idle]
  /\ sent = Idle
  /\ newSlot = EmptyForm

NextSlotRace ==
  \/ \E r \in Batch, d \in ValidDates, t \in ValidTimes :
       CreateSlotStart(r, Bearer(1), d, t)
  \/ \E r \in Batch : CreateSlotFindOne(r)
  \/ \E r \in Batch : CreateSlotSave(r)

SpecSlotRace == InitSlotRace /\ [][NextSlotRace]_vars

\* The lists under load: the store holds two slots, one of them booked,
\* and the operator is logged in; list requests and the writes of
\* well-behaved clients interleave at every await while the connection
\* comes and goes.
InitRead ==
  /\ slots = {Slot(i, Dates[1], Times[i]) : i \in 1..Len(Times)}
  /\ bookings = {NewBooking(1, 1, Dates[1], Times[1], "Jane Doe",
                            "jane@example.com", "")}
  /\ adminSessions = {1}
  /\ readyState = CONNECTED
  /\ nextId = [slot |-> Len(Times) + 1, booking |-> 2, token |-> 2]
  /\ req = [r \in Req |-> Idle]
  /\ sent = Idle
  /\ newSlot = EmptyForm

NextRead ==
  \/ Deliver
  \/ sent = Idle /\ Connect
  \/ sent = Idle /\ Disconnect
  \/ sent = Idle /\ \E r \in Pool : Reads(r, WellFormed(1))
  \/ sent = Idle /\ \E r \in Pool : Writes(r, WellFormed(1))

SpecRead == InitRead /\ [][NextRead]_vars

\* A batch of session requests: each request of the batch is issued once,
\* a Login with the right or a wrong password, a Logout or an admin check
\* with no header or with a token some Login has returned.  The three
\* handlers have no await, so each runs to its response in one step.
NextSessionRace ==
  \/ \E r \in Batch, pw \in {ADMIN_PASSWORD, "wrong"} : Login(r, pw)
  \/ \E r \in Batch :
       \E h \in {NoHeader} \cup {Bearer(t) : t \in 1..(nextId.token - 1)}
                           \cup {Raw(t) : t \in 1..(nextId.token - 1)} :
         Logout(r, h)
  \/ \E r \in Batch :
       \E h \in {NoHeader} \cup {Bearer(t) : t \in 1..(nextId.token - 1)} :
         AdminCheck(r, h)

SpecSessionRace == Init /\ [][NextSessionRace]_vars

\* A batch of cancellations: the store is connected and holds two booked
\* slots, the operator is logged in; each request of the batch is issued
\* once with the operator's token for one of the two bookings.
InitCancelRace ==
  /\ slots = {Slot(i, Dates[1], Times[i]) : i \in 1..Len(Times)}
  /\ bookings = {NewBooking(i, i, Dates[1], Times[i], "Jane Doe",
                            "jane@example.com", "") : i \in 1..Len(Times)}
  /\ adminSessions = {1}
  /\ readyState = CONNECTED
  /\ nextId = [slot |-> Len(Times) + 1, booking |-> Len(Times) + 1,
               token |-> 2]
  /\ req = [r \in Req |-> Idle]
  /\ sent = Idle
  /\ newSlot = EmptyForm

NextCancelRace ==
  \/ \E r \in Batch, i \in 1..Len(Times) :
       CancelBookingStart(r, Bearer(1), i)
  \/ \E r \in Batch : CancelBookingDelete(r)

SpecCancelRace == InitCancelRace /\ [][NextCancelRace]_vars

\* The server with every awaited store call returning or throwing in the
\* end: requests of every route, with and without the operator's token and
\* with well-formed and malformed ids, interleave at every await on a
\* store that holds one booked slot, while the connection comes and goes.
LiveInput ==
  [WellFormed(1) EXCEPT !.headers = @ \cup {NoHeader},
                        !.passwords = {"wrong"},
                        !.slotIds = {BadId, 1},
                        !.slotParams = {BadId, 1},
                        !.bookingParams = {BadId, 1}]

InitLive ==
  /\ slots = {Slot(1, Dates[1], Times[1])}
  /\ bookings = {NewBooking(1, 1, Dates[1], Times[1], "Jane Doe",
                            "jane@example.com", "")}
  /\ adminSessions = {1}
  /\ readyState = CONNECTED
  /\ nextId = [slot |-> 2, booking |-> 2, token |-> 2]
  /\ req = [r \in Req |-> Idle]
  /\ sent = Idle
  /\ newSlot = EmptyForm

\* the handler of r comes back from an await
Resume(r) ==
  \/ CreateSlotFindOne(r) \/ CreateSlotSave(r)
  \/ DeleteSlotFindBooking(r) \/ DeleteSlotDelete(r)
  \/ CreateBookingFindSlot(r) \/ CreateBookingFindBooking(r)
  \/ CreateBookingSave(r)
  \/ CancelBookingDelete(r)
  \/ ListSlotsFind(r) \/ ListBookingsFind(r)
  \/ JoinReadSlots(r) \/ JoinReadBookings(r)

NextLive ==
  \/ Deliver
  \/ sent = Idle /\ Connect
  \/ sent = Idle /\ Disconnect
  \/ sent = Idle /\ \E r \in Pool : Handler(r, LiveInput)

SpecLive ==
  /\ InitLive /\ [][NextLive]_vars
  /\ WF_vars(Deliver)
  /\ \A r \in Pool : SF_vars(sent = Idle /\ Resume(r))

\* The slot form: the operator picks an hour, a minute or AM/PM, in any
\* order and any number of times; the server is not involved.
SelectHour(v) ==
  /\ newSlot' = [newSlot EXCEPT !.time = OnHourChange(@, v)]
  /\ UNCHANGED <<slots, bookings, adminSessions, readyState, nextId, req,
                 sent>>

SelectMinute(v) ==
  /\ newSlot' = [newSlot EXCEPT !.time = OnMinuteChange(@, v)]
  /\ UNCHANGED <<slots, bookings, adminSessions, readyState, nextId, req,
                 sent>>

SelectMeridiem(v) ==
  /\ newSlot' = [newSlot EXCEPT !.time = OnMeridiemChange(@, v)]
  /\ UNCHANGED <<slots, bookings, adminSessions, readyState, nextId, req,
                 sent>>

NextPicker ==
  \/ \E v \in HourValues : SelectHour(v)
  \/ \E v \in MinuteValues : SelectMinute(v)
  \/ \E v \in MeridiemValues : SelectMeridiem(v)

SpecPicker == Init /\ [][NextPicker]_vars

\* The sorted lists: the stores hold up to MaxSort slots of any dates and
\* times, no two of the same date and time, created in any order, some of
\* them booked, the bookings made in the order of the slots or against it;
\* the operator is logged in and the list routes are served one at a time.
InitSort ==
  \E k \in 0..MaxSort :
    \E f \in [1..k -> (1..Len(DateOrder)) \X (1..Len(TimeOrder))] :
      \E B \in SUBSET (1..k), rev \in BOOLEAN :
        /\ \A i, j \in 1..k : f[i] = f[j] => i = j
        /\ slots = {Slot(i, DateOrder[f[i][1]], TimeOrder[f[i][2]]) :
                      i \in 1..k}
        /\ bookings = {NewBooking(IF rev THEN k + 1 - i ELSE i, i,
                                  DateOrder[f[i][1]], TimeOrder[f[i][2]],
                                  "Jane Doe", "jane@example.com", "") :
                         i \in B}
        /\ adminSessions = {1}
        /\ readyState = CONNECTED
        /\ nextId = [slot |-> k + 1, booking |-> k + 1, token |-> 2]
        /\ req = [r \in Req |-> Idle]
        /\ sent = Idle
        /\ newSlot = EmptyForm

NextSort ==
  \/ Deliver
  \/ sent = Idle /\ ListSlotsStart(Solo)
  \/ ListSlotsFind(Solo)
  \/ sent = Idle /\ ListBookingsStart(Solo, Bearer(1))
  \/ ListBookingsFind(Solo)
  \/ sent = Idle /\ JoinStart(Solo, "allStatus")
  \/ JoinReadSlots(Solo)
  \/ JoinReadBookings(Solo)

SpecSort == InitSort /\ [][NextSort]_vars

\* The server across restarts: a request of any route with any input is
\* served while no other request is under way, and the process may be
\* restarted between any two steps, after which the connection comes up
\* again.
NextRestart ==
  \/ Deliver
  \/ sent = Idle /\ Connect
  \/ sent = Idle /\ Restart
  \/ sent = Idle /\ Handler(Solo, AnyInput(MaxToken + 1))

SpecRestart == Init /\ [][NextRestart]_vars

\* ================================================================== claims
\* the ids a list response carries
BodyIds(b) == {b[i].id : i \in 1..Len(b)}

\* C2: in every reachable state no two Bookings of the Booking Store have
\* the same slotId.
C2_OneBookingPerSlot ==
  \A b1 \in bookings, b2 \in bookings : b1.slotId = b2.slotId => b1 = b2

\* a second insert for a booked slot was turned down by the unique index
C2_Witness ==
  /\ sent.op = "createBooking" /\ sent.at = "save" /\ sent.status = 400
  /\ \E b \in bookings : b.slotId = sent.id

\* C3: every Booking's slotId references a Slot that exists in the Slot
\* Store, under every interleaving of CreateBooking and DeleteSlot.
C3_NoOrphanedBooking ==
  \A b \in bookings : \E s \in slots : s.id = b.slotId

\* C4: ListBookableSlots, run with the store connected and no other request
\* under way, returns exactly the existing Slots that no Booking references.
C4_BookableIsUnbooked ==
  (sent.op = "bookable" /\ sent.alone /\ connected) =>
     /\ sent.status = 200
     /\ BodyIds(sent.body) =
          {s.id : s \in {x \in slots : \A b \in bookings : b.slotId # x.id}}
     /\ Len(sent.body) = Cardinality(BodyIds(sent.body))

\* a list that leaves a booked slot out and carries an unbooked one
C4_Witness ==
  /\ sent.op = "bookable" /\ sent.alone /\ connected
  /\ sent.body # <<>>
  /\ \E s \in slots, b \in bookings :
       b.slotId = s.id /\ s.id \notin BodyIds(sent.body)

\* C5: an authorized DeleteSlot on a slot that a Booking references, run
\* with no other request under way, is answered 400 (store connected) and
\* changes neither store.
C5_BookedSlotNotDeleted ==
  (/\ sent.op = "deleteSlot" /\ sent.alone /\ sent.gate = "passed"
   /\ \E b \in bookings : b.slotId = sent.id) =>
     /\ connected => sent.status = 400
     /\ sent.status # 200
     /\ ~sent.wrote

\* the slot exists, is booked by a booking whose id differs from the slot's,
\* and the delete was refused
C5_Witness ==
  /\ sent.op = "deleteSlot" /\ sent.alone /\ sent.gate = "passed"
  /\ sent.status = 400
  /\ \E s \in slots : s.id = sent.id
  /\ \E b \in bookings : b.slotId = sent.id /\ b.id # sent.id

\* C6: a ListBookableSlots that comes right behind a successful
\* CancelBooking, with the store connected and no other request under way,
\* lists the slot the cancellation freed.
C6_FreedSlotListed ==
  (/\ sent.op = "bookable" /\ sent.alone /\ connected
   /\ sent.after.op = "cancelBooking") =>
     sent.after.slotId \in BodyIds(sent.body)

\* C8: starting from an empty Slot Store, a successful CreateSlot(date,
\* time) followed at once by ListAllSlots returns exactly one entry, with
\* that date and time and isAvailable = true.
C8_CreateThenList ==
  (/\ sent.op = "listSlots" /\ sent.alone /\ connected
   /\ sent.after.op = "createSlot" /\ sent.after.wasEmpty) =>
     /\ sent.status = 200
     /\ sent.body = <<[id |-> sent.after.slotId, date |-> sent.after.date,
                       time |-> sent.after.time, isAvailable |-> TRUE]>>

C8_Witness ==
  /\ sent.op = "listSlots" /\ sent.alone /\ connected
  /\ sent.after.op = "createSlot" /\ sent.after.wasEmpty
  /\ sent.after.date = "2024-06-01" /\ sent.after.time = "14:30"
  /\ Len(sent.body) = 1

\* the requests of a batch that have been answered with status st
Answered(R, st) == {r \in R : req[r].pc = "done" /\ req[r].status = st}

\* C1: of the CreateBooking requests with valid fields issued concurrently
\* for one existing, unbooked slot, under every interleaving of their
\* await steps, every answer is 200 or 400 (never 500), at most one is 200,
\* and once all of them are answered exactly one is 200.
C1_ExactlyOneBooks ==
  \A i \in {s.id : s \in slots} :
    LET asked == {r \in Batch : req[r].op = "createBooking" /\ req[r].id = i}
    IN  /\ \A r \in asked :
             req[r].pc = "done" => req[r].status \in {200, 400}
        /\ Cardinality(Answered(asked, 200)) <= 1
        /\ (asked # {} /\ \A r \in asked : req[r].pc = "done") =>
             /\ Cardinality(Answered(asked, 200)) = 1
             /\ Cardinality(Answered(asked, 400)) = Cardinality(asked) - 1

\* three requests for one slot: one booked it, one was turned down by the
\* pre-check and one by the unique index at its insert
C1_Witness ==
  \E r1 \in Batch, r2 \in Batch, r3 \in Batch :
    /\ req[r1].id = req[r2].id /\ req[r2].id = req[r3].id
    /\ req[r1].pc = "done" /\ req[r1].status = 200
    /\ req[r2].pc = "done" /\ req[r2].status = 400 /\ req[r2].at = "save"
    /\ req[r3].pc = "done" /\ req[r3].status = 400
    /\ req[r3].at = "findBooking"

\* C7: no two Slots have the same (date, time); and of the authorized
\* CreateSlot requests issued concurrently with the same (date, time), at
\* most one is answered 200, every answer is 200 or 400, and once all are
\* answered exactly one is 200.
C7_ExactlyOneCreates ==
  /\ \A s1 \in slots, s2 \in slots :
       (s1.date = s2.date /\ s1.time = s2.time) => s1 = s2
  /\ \A d \in ValidDates, t \in ValidTimes :
       LET asked == {r \in Batch : /\ req[r].op = "createSlot"
                                   /\ req[r].date = d /\ req[r].time = t}
       IN  /\ \A r \in asked :
                req[r].pc = "done" => req[r].status \in {200, 400}
           /\ Cardinality(Answered(asked, 200)) <= 1
           /\ (asked # {} /\ \A r \in asked : req[r].pc = "done") =>
                /\ Cardinality(Answered(asked, 200)) = 1
                /\ Cardinality(Answered(asked, 400)) = Cardinality(asked) - 1

\* three requests for one (date, time): one created the slot, one was
\* turned down by the pre-check and one by the unique index at its insert
C7_Witness ==
  \E r1 \in Batch, r2 \in Batch, r3 \in Batch :
    /\ req[r1].date = req[r2].date /\ req[r1].time = req[r2].time
    /\ req[r2].date = req[r3].date /\ req[r2].time = req[r3].time
    /\ req[r1].pc = "done" /\ req[r1].status = 200
    /\ req[r2].pc = "done" /\ req[r2].status = 400 /\ req[r2].at = "save"
    /\ req[r3].pc = "done" /\ req[r3].status = 400 /\ req[r3].at = "findOne"

\* C9 as stated: a Login with any password other than the secret is
\* answered 401 and leaves the session set as it was.
C9_AnyOtherPassword401 ==
  (sent.op = "login" /\ sent.password # ADMIN_PASSWORD) =>
     /\ sent.status = 401
     /\ adminSessions = sent.sessBefore

\* C9: a Login with a password other than the secret is answered 401, or
\* 400 when the password is empty or missing; it returns no token and
\* leaves the session set as it was.
C9_OtherPasswordRejected ==
  (sent.op = "login" /\ sent.password # ADMIN_PASSWORD) =>
     /\ sent.status = IF sent.password = "" THEN 400 ELSE 401
     /\ sent.body = <<>>
     /\ adminSessions = sent.sessBefore

\* a wrong password was turned down with 401 while a session was active
\* and a token had been logged out
C9_Witness ==
  /\ sent.op = "login" /\ sent.password = "wrong" /\ sent.status = 401
  /\ adminSessions # {}
  /\ \E t \in 1..(nextId.token - 1) : t \notin adminSessions

\* the token a Logout request names: none when the header is absent or
\* carries the empty string
Named(q) == IF q.hdr.present /\ q.hdr.tok # 0 THEN {q.hdr.tok} ELSE {}

\* C10: a Logout is answered 200 and removes the token it names and no
\* other: with no token, or a token that is not in the set, the set is left
\* as it was; and a Logout right behind a Logout of the same token leaves
\* the set as the first one left it.
C10_LogoutIdempotent ==
  /\ [](sent.op = "logout" =>
          /\ sent.status = 200
          /\ adminSessions = sent.sessBefore \ Named(sent)
          /\ Named(sent) \cap sent.sessBefore = {} =>
               adminSessions = sent.sessBefore)
  /\ [][(/\ sent.op = "logout" /\ sent'.op = "logout"
         /\ Named(sent') = Named(sent)) =>
          adminSessions' = adminSessions]_vars

\* a Logout of a token that a Login had returned and that was no longer a
\* session, while another session was active
C10_Witness ==
  /\ sent.op = "logout" /\ sent.status = 200
  /\ \E t \in Named(sent) : t < nextId.token /\ t \notin sent.sessBefore
  /\ sent.sessBefore # {}
  /\ adminSessions = sent.sessBefore

\* the routes behind requireAdmin
Protected ==
  {"createSlot", "deleteSlot", "listBookings", "cancelBooking", "check"}

\* the header of request q carries no token, or one that is not a session
Unauthorized(q) ==
  \/ ~q.hdr.present
  \/ q.hdr.tok = 0
  \/ q.hdr.tok \notin adminSessions

\* C11: a request to an operator-only route with no token or a token that
\* is not in the session set is answered 401 by the step that receives it,
\* and that step changes neither store nor the session set; a handler of
\* such a route is under way, and a store changes in its step, only for a
\* request that passed the gate.
C11_GateGuards ==
  /\ []((sent.op \in Protected /\ sent.at = "idle" /\ Unauthorized(sent))
          => sent.status = 401)
  /\ [](\A r \in Req :
          (req[r].op \in Protected /\ req[r].pc \notin {"idle", "done"})
            => req[r].gate = "passed")
  /\ [][(sent'.op \in Protected /\ sent'.pc = "done") =>
          /\ sent'.status = 401 =>
               (slots' = slots /\ bookings' = bookings
                /\ adminSessions' = adminSessions)
          /\ (slots' # slots \/ bookings' # bookings) =>
               sent'.gate = "passed"]_vars

\* a cancellation of an existing booking with a token that was a session
\* and has been logged out is answered 401, the booking still there
C11_Witness ==
  /\ sent.op = "cancelBooking" /\ sent.status = 401
  /\ sent.hdr.bearer /\ sent.hdr.tok \in 1..(nextId.token - 1)
  /\ sent.hdr.tok \notin adminSessions
  /\ \E b \in bookings : b.id = sent.id

\* C12: the session set holds only tokens a successful Login returned; a
\* token enters it only as the fresh token of a Login answered 200, and
\* leaves it only by a Logout that names it or by a restart, so a token
\* that was logged out never returns; and the admin check accepts a token
\* exactly while it is in the set.
C12_SessionLifecycle ==
  /\ [](adminSessions \subseteq 1..(nextId.token - 1))
  /\ [](sent.op = "check" =>
          sent.status = IF Unauthorized(sent) THEN 401 ELSE 200)
  /\ [][/\ \A t \in adminSessions \ adminSessions' :
             \/ sent'.op = "logout" /\ sent'.hdr.present /\ sent'.hdr.tok = t
             \/ sent'.op = "restart" /\ adminSessions' = {}
        /\ \A u \in adminSessions' \ adminSessions :
             /\ sent'.op = "login" /\ sent'.status = 200
             /\ sent'.body = <<u>>
             /\ u = nextId.token /\ nextId'.token > u]_vars

\* the admin check turns down a token a Login had returned and that is no
\* longer a session, and another session is active
C12_Witness ==
  /\ sent.op = "check" /\ sent.status = 401
  /\ sent.hdr.bearer /\ sent.hdr.tok \in 1..(nextId.token - 1)
  /\ adminSessions # {}

WriteRoutes == {"createSlot", "deleteSlot", "createBooking", "cancelBooking"}

\* C14: a write request that passes the gate and is answered while the
\* store is unreachable is answered 503 and changes no store, whether the
\* store was unreachable at the handler's connectivity check or became so
\* before a later store call of the handler.
C14_UnreachableIs503 ==
  (sent.op \in WriteRoutes /\ sent.gate # "denied" /\ ~connected) =>
     /\ sent.status = 503
     /\ ~sent.wrote

\* the public list routes
PublicReads == {"listSlots", "bookable", "allStatus"}

\* the handler of request r takes a step (what a request under way has
\* seen of the stores is no step of its handler)
Stepped(r) ==
  [req'[r] EXCEPT !.seenFree = {}] # [req[r] EXCEPT !.seenFree = {}]

\* C15: ListAllSlots, ListBookableSlots and ListAllSlotsWithStatus always
\* answer 200; answered while the store is unreachable, at the entry check
\* or after a store read that failed part-way, the list is empty; and no
\* step of their handlers changes a store or the session set.
C15_PublicReadsDegrade ==
  /\ [](sent.op \in PublicReads =>
          /\ sent.status = 200
          /\ ~connected => sent.body = <<>>)
  /\ [][(\/ sent'.op \in PublicReads
         \/ \E r \in Req : Stepped(r) /\ req'[r].op \in PublicReads) =>
          (slots' = slots /\ bookings' = bookings
           /\ adminSessions' = adminSessions)]_vars

\* the slot read of ListAllSlotsWithStatus had returned the slots when the
\* connection was lost, its booking read failed, and the answer is 200
\* with the empty list
C15_Witness ==
  /\ sent.op = "allStatus" /\ sent.at = "all" /\ ~connected
  /\ sent.gotSlots /\ sent.allSlots # {} /\ ~sent.gotBookings
  /\ sent.status = 200 /\ sent.body = <<>>

\* C16: an authorized ListBookings answered while the store is unreachable,
\* at the entry check or after the store read failed, is answered 200 with
\* the empty list.
C16_ListBookingsDegrades ==
  (sent.op = "listBookings" /\ sent.gate = "passed" /\ ~connected) =>
     /\ sent.status = 200
     /\ sent.body = <<>>

\* C17: an authorized DeleteSlot for a slotId for which no Slot exists,
\* served with the store connected and no other request under way, is
\* answered 404, also when a Booking references the missing slotId.
C17_MissingSlot404 ==
  (/\ sent.op = "deleteSlot" /\ sent.alone /\ sent.gate = "passed"
   /\ connected /\ ~sent.wrote
   /\ \A s \in slots : s.id # sent.id) =>
     sent.status = 404

\* C18: an authorized CancelBooking answered with the store connected
\* removes exactly the Booking with the id it names and answers 200 if
\* that Booking exists, and answers 404 and leaves the Booking Store as it
\* was otherwise; the Slot Store and every other Booking are unchanged.
C18_CancelExactly ==
  [][(/\ sent'.op = "cancelBooking" /\ sent'.pc = "done"
      /\ sent'.gate = "passed" /\ readyState = CONNECTED) =>
       /\ slots' = slots
       /\ bookings' = {b \in bookings : b.id # sent'.id}
       /\ sent'.status =
            IF \E b \in bookings : b.id = sent'.id THEN 200 ELSE 404]_vars

\* a field of a request body that is missing or the empty string
Absent(x) == x = "undefined" \/ x = ""

\* C19: with the store connected, a CreateBooking whose slotId, clientName
\* or clientEmail is empty or missing, and an authorized CreateSlot whose
\* date or time is empty or missing, are answered 400 by a step that
\* changes no store; a booking made without a clientPhone is stored and
\* returned with the empty string as its phone.
C19_InputValidation ==
  /\ []((/\ sent.op = "createBooking" /\ connected
         /\ \/ sent.id = NoId
            \/ Absent(sent.clientName)
            \/ Absent(sent.clientEmail)) => sent.status = 400)
  /\ []((/\ sent.op = "createSlot" /\ connected /\ sent.gate = "passed"
         /\ (Absent(sent.date) \/ Absent(sent.time))) => sent.status = 400)
  /\ []((/\ sent.op = "createBooking" /\ sent.status = 200
         /\ sent.clientPhone = "undefined") =>
          /\ sent.body[1].clientPhone = ""
          /\ \E b \in bookings :
               b.id = sent.body[1].id /\ b.clientPhone = "")
  /\ [][(/\ sent'.op \in {"createBooking", "createSlot"}
         /\ sent'.pc = "done" /\ sent'.status = 400) =>
          (slots' = slots /\ bookings' = bookings)]_vars

\* a booking made without a clientPhone is in the store with phone ""
C19_Witness ==
  /\ sent.op = "createBooking" /\ sent.status = 200
  /\ sent.clientPhone = "undefined"
  /\ \E b \in bookings : b.id = sent.body[1].id /\ b.clientPhone = ""

\* a CreateSlot without a time was turned down with 400, the operator
\* logged in and the store connected
C19_WitnessSlot ==
  /\ sent.op = "createSlot" /\ sent.status = 400 /\ sent.gate = "passed"
  /\ connected /\ sent.time = "undefined" /\ sent.date = "2024-06-01"

\* C20: the step in which a write route answers 200 applies its mutation:
\* CreateBooking inserts one Booking with the returned id and the slotId
\* asked for, CreateSlot inserts one Slot with the returned id and the date
\* and time asked for, CancelBooking and DeleteSlot remove the record with
\* the id asked for, and nothing else changes; the step in which a write
\* route answers 400, 401, 404, 500 or 503 changes neither store, and no
\* other step changes a store.
C20_SuccessMeansApplied ==
  [][/\ (slots' # slots \/ bookings' # bookings) =>
          (sent'.op \in WriteRoutes /\ sent'.status = 200)
     /\ (sent'.op \in WriteRoutes /\ sent'.pc = "done") =>
       IF sent'.status = 200
       THEN \/ /\ sent'.op = "createBooking" /\ slots' = slots
               /\ \E b \in bookings' \ bookings :
                    /\ bookings' = bookings \cup {b}
                    /\ b.id = sent'.body[1].id /\ b.slotId = sent'.id
                    /\ sent'.body[1].slotId = sent'.id
            \/ /\ sent'.op = "createSlot" /\ bookings' = bookings
               /\ \E s \in slots' \ slots :
                    /\ slots' = slots \cup {s}
                    /\ s.id = sent'.body[1].id
                    /\ s.date = sent'.date /\ s.time = sent'.time
            \/ /\ sent'.op = "cancelBooking" /\ slots' = slots
               /\ \E b \in bookings :
                    b.id = sent'.id /\ bookings' = bookings \ {b}
            \/ /\ sent'.op = "deleteSlot" /\ bookings' = bookings
               /\ \E s \in slots : s.id = sent'.id /\ slots' = slots \ {s}
       ELSE /\ sent'.status \in {400, 401, 404, 500, 503}
            /\ slots' = slots /\ bookings' = bookings]_vars

\* a cancellation was answered 200 and the booking is gone from the
\* store, which still holds another booking
C20_Witness ==
  /\ sent.op = "cancelBooking" /\ sent.status = 200
  /\ \A b \in bookings : b.id # sent.id
  /\ bookings # {}

\* C21: a Booking leaves the store only in the step of a CancelBooking
\* that passed the gate and is answered 200; and a CreateBooking with valid
\* fields for an existing slot that no Booking references, served with the
\* store connected and no other request under way, is answered 200.
C21_Rebooking ==
  [][/\ (\E b \in bookings : b \notin bookings') =>
          /\ sent'.op = "cancelBooking" /\ sent'.status = 200
          /\ sent'.gate = "passed"
     /\ (/\ sent'.op = "createBooking" /\ sent'.pc = "done" /\ sent'.alone
         /\ readyState = CONNECTED
         /\ ~Absent(sent'.clientName) /\ ~Absent(sent'.clientEmail)
         /\ \E s \in slots : s.id = sent'.id
         /\ \A b \in bookings : b.slotId # sent'.id) =>
          sent'.status = 200]_vars

\* the only slot ever created is booked again, by the second booking the
\* store has seen, after its first booking was cancelled
C21_Witness ==
  /\ sent.op = "createBooking" /\ sent.alone /\ sent.status = 200
  /\ nextId.slot = 2 /\ sent.id = 1
  /\ sent.body[1].id = 2
  /\ bookings = {b \in bookings : b.id = 2}
  /\ \E s \in slots : s.id = 1

\* C22: a restart leaves the session set empty and both stores as they
\* were; a token enters the session set only as the fresh token of a Login
\* answered 200; and once the process has been restarted, every token that
\* was issued before gets 401 on every protected route from then on, while
\* a token of a later Login is accepted.
C22_RestartEndsSessions ==
  /\ [][sent'.op = "restart" =>
          /\ adminSessions' = {}
          /\ slots' = slots /\ bookings' = bookings]_vars
  /\ [][\A u \in adminSessions' \ adminSessions :
          /\ sent'.op = "login" /\ sent'.status = 200
          /\ u = nextId.token /\ nextId'.token > u]_vars
  /\ \A t \in 1..(MaxToken + 1) :
       []((sent.op = "restart" /\ t < nextId.token) =>
            []((/\ sent.op \in Protected /\ sent.pc = "done"
                /\ sent.hdr.present /\ sent.hdr.tok = t) =>
                 sent.status = 401))

\* right after a restart: a token had been issued, its session is gone,
\* and the stores hold the slot and the booking they held
C22_Witness ==
  /\ sent.op = "restart"
  /\ nextId.token > 1 /\ adminSessions = {}
  /\ slots # {} /\ bookings # {}

\* C23: a CreateBooking answered 200 has stored a Booking, and returns it,
\* whose slotId, date and time are those of the Slot its slot lookup found;
\* and in every reachable state a Booking whose Slot is in the Slot Store
\* has the date and the time of that Slot.
C23_DateTimeCopied ==
  /\ (sent.op = "createBooking" /\ sent.status = 200) =>
       /\ Len(sent.slot) = 1 /\ sent.slot[1].id = sent.id
       /\ sent.body[1].slotId = sent.slot[1].id
       /\ sent.body[1].date = sent.slot[1].date
       /\ sent.body[1].time = sent.slot[1].time
       /\ \E b \in bookings :
            /\ b.id = sent.body[1].id /\ b.slotId = sent.body[1].slotId
            /\ b.date = sent.body[1].date /\ b.time = sent.body[1].time
  /\ \A b \in bookings, s \in slots :
       b.slotId = s.id => b.date = s.date /\ b.time = s.time

\* the later of two slots is booked and the booking carries its time
C23_Witness ==
  /\ sent.op = "createBooking" /\ sent.status = 200
  /\ sent.body[1].time = "14:30"
  /\ Cardinality(slots) = 2
  /\ \E s \in slots : s.id = sent.id /\ s.time = "14:30"

\* the ids of the slots of the Slot Store that no Booking references
Unbooked == {s.id : s \in {x \in slots : \A b \in bookings : b.slotId # x.id}}

\* C24: a ListAllSlotsWithStatus served with the store connected and no
\* other request under way returns one entry per Slot of the Slot Store,
\* with its id, date and time, and no other entry; an entry has isBooked
\* exactly when a Booking references its slot, and then its booking field
\* is that Booking's clientName, clientEmail and clientPhone, otherwise
\* null; and its entries that are not booked are the slots that a
\* ListBookableSlots served in the same way returns.
C24_StatusMatchesStores ==
  /\ (sent.op = "allStatus" /\ sent.pc = "done" /\ sent.alone /\ connected) =>
       /\ sent.status = 200
       /\ Len(sent.body) = Cardinality(slots)
       /\ BodyIds(sent.body) = {s.id : s \in slots}
       /\ \A i \in 1..Len(sent.body) :
            LET e == sent.body[i]
            IN  /\ \E s \in slots :
                     s.id = e.id /\ s.date = e.date /\ s.time = e.time
                /\ e.isBooked <=> \E b \in bookings : b.slotId = e.id
                /\ e.isBooked =>
                     \E b \in bookings :
                       /\ b.slotId = e.id
                       /\ e.booking = <<[clientName |-> b.clientName,
                                         clientEmail |-> b.clientEmail,
                                         clientPhone |-> b.clientPhone]>>
                /\ ~e.isBooked => e.booking = <<>>
       /\ {sent.body[i].id : i \in {j \in 1..Len(sent.body) :
                                      ~sent.body[j].isBooked}} = Unbooked
  /\ (sent.op = "bookable" /\ sent.pc = "done" /\ sent.alone /\ connected) =>
       /\ sent.status = 200
       /\ Len(sent.body) = Cardinality(Unbooked)
       /\ BodyIds(sent.body) = Unbooked

\* the status list shows two slots, one of them booked and one free
C24_Witness ==
  /\ sent.op = "allStatus" /\ sent.alone /\ connected
  /\ Len(sent.body) = 2
  /\ \E i, j \in 1..2 : sent.body[i].isBooked /\ ~sent.body[j].isBooked

\* entry a is not after entry b by (date, time), compared as strings
KeyLeq(a, b) ==
  LET da == CHOOSE i \in 1..Len(DateOrder) : DateOrder[i] = a.date
      db == CHOOSE i \in 1..Len(DateOrder) : DateOrder[i] = b.date
      ta == CHOOSE i \in 1..Len(TimeOrder) : TimeOrder[i] = a.time
      tb == CHOOSE i \in 1..Len(TimeOrder) : TimeOrder[i] = b.time
  IN  da < db \/ (da = db /\ ta <= tb)

\* C25: the lists that ListAllSlots, ListAllSlotsWithStatus and
\* ListBookings return are ascending by (date, time), date first, both
\* compared as strings.
C25_ListsSorted ==
  (sent.op \in {"listSlots", "allStatus", "listBookings"}
     /\ sent.pc = "done") =>
    \A i, j \in 1..Len(sent.body) :
      i < j => KeyLeq(sent.body[i], sent.body[j])

\* a list of three in which the order of the dates, the string order of
\* the times and the order of creation all differ
C25_Witness ==
  /\ sent.op \in {"listSlots", "allStatus", "listBookings"}
  /\ Len(sent.body) = 3
  /\ sent.body[1].date = sent.body[2].date
  /\ sent.body[1].time = "14:30" /\ sent.body[2].time = "9:00"
  /\ sent.body[3].date # sent.body[1].date /\ sent.body[3].time = "09:00"
  /\ sent.body[1].id > sent.body[2].id

\* C26: no step changes the date, time or isAvailable of a Slot that stays
\* in the Slot Store; no step of a CreateBooking or a CancelBooking changes
\* the Slot Store; every stored Slot has isAvailable = true; and, served
\* alone with the store connected, a CreateBooking with valid fields and a
\* well-formed slot id is answered by whether the slot exists and whether a
\* Booking references it (404, 400, else 200), and ListBookableSlots
\* returns the slots no Booking references, each with isAvailable true.
C26_SlotsImmutable ==
  /\ [](\A s \in slots : s.isAvailable = TRUE)
  /\ [][\A s \in slots, t \in slots' : s.id = t.id => s = t]_vars
  /\ [][(\/ sent'.op \in {"createBooking", "cancelBooking"}
         \/ \E r \in Req : /\ req'[r] # req[r]
                           /\ req'[r].op \in {"createBooking",
                                              "cancelBooking"}) =>
          slots' = slots]_vars
  /\ [][(/\ sent'.op = "createBooking" /\ sent'.pc = "done" /\ sent'.alone
         /\ readyState = CONNECTED /\ sent'.id \in 1..MaxSlotId
         /\ ~Absent(sent'.clientName) /\ ~Absent(sent'.clientEmail)) =>
          sent'.status =
            IF \A s \in slots : s.id # sent'.id THEN 404
            ELSE IF \E b \in bookings : b.slotId = sent'.id THEN 400
            ELSE 200]_vars
  /\ []((sent.op = "bookable" /\ sent.pc = "done" /\ sent.alone
         /\ connected) =>
          /\ BodyIds(sent.body) = Unbooked
          /\ \A i \in 1..Len(sent.body) : sent.body[i].isAvailable = TRUE)

\* a slot has just been booked and is in the Slot Store as it was created
C26_Witness ==
  /\ sent.op = "createBooking" /\ sent.status = 200
  /\ \E s \in slots :
       /\ s.id = sent.id /\ s.isAvailable = TRUE
       /\ s.date = sent.body[1].date /\ s.time = sent.body[1].time
       /\ \E b \in bookings : b.slotId = s.id

\* C27: under every interleaving of the steps of concurrent CreateBooking
\* requests with valid fields, store connected and no slot deleted, a
\* request that is the only one for its (existing, unbooked) slot is
\* answered 200, whatever the requests for other slots do; so two requests
\* for two different slots both succeed.
C27_DifferentSlotsIndependent ==
  \A r \in Batch :
    (/\ req[r].op = "createBooking" /\ req[r].pc = "done"
     /\ \A o \in Batch \ {r} :
          req[o].op = "createBooking" => req[o].id # req[r].id) =>
      /\ req[r].status = 200
      /\ \E b \in bookings : b.id = req[r].body[1].id /\ b.slotId = req[r].id

\* two requests for two different slots have both booked, the one that
\* booked second being the lower-numbered request; a third has not started
C27_Witness ==
  \E r1 \in Batch, r2 \in Batch, r3 \in Batch :
    /\ req[r1].pc = "done" /\ req[r1].status = 200
    /\ req[r2].pc = "done" /\ req[r2].status = 200
    /\ req[r1].id # req[r2].id
    /\ r1 < r2 /\ req[r1].body[1].id > req[r2].body[1].id
    /\ req[r3].pc = "idle"

\* C28: under every interleaving of concurrent Login, Logout and admin
\* check requests, at every moment and so once all are answered, the
\* session set is the set of tokens the Logins answered 200 have returned
\* less the tokens that were passed to a Logout.
C28_NoTokenLostOrResurrected ==
  LET answered == {r \in Batch : req[r].pc = "done"}
      returned == {req[r].body[1] :
                     r \in {x \in answered : /\ req[x].op = "login"
                                             /\ req[x].status = 200}}
      passed == UNION {Named(req[r]) :
                         r \in {x \in answered : req[x].op = "logout"}}
  IN  /\ adminSessions = returned \ passed
      /\ \A r \in answered : req[r].op = "logout" => req[r].status = 200

\* all answered: two Logins returned tokens, the first was logged out, the
\* second is the one session
C28_Witness ==
  /\ \A r \in Batch : req[r].pc = "done"
  /\ Cardinality({r \in Batch : req[r].op = "login"
                                /\ req[r].status = 200}) = 2
  /\ \E r \in Batch : req[r].op = "logout" /\ req[r].hdr.tok = 1
  /\ adminSessions = {2}

\* C29: in every reachable state, under every interleaving of CreateSlot,
\* DeleteSlot, CreateBooking and CancelBooking, no two Bookings have the
\* same date and time.
C29_OneBookingPerDateTime ==
  \A b1 \in bookings, b2 \in bookings :
    (b1.date = b2.date /\ b1.time = b2.time) => b1 = b2

\* C30: every slot a ListBookableSlots returns, whatever writes ran between
\* its two reads, was in the Slot Store with no Booking referencing it at
\* some moment between the arrival of the request and its response.
C30_ReturnedSlotWasFree ==
  (sent.op = "bookable" /\ sent.pc = "done") =>
    BodyIds(sent.body) \subseteq sent.seenFree

\* C31: of the authorized CancelBooking requests issued concurrently for
\* one existing booking, under every interleaving of their steps, every
\* answer is 200 or 404, at most one is 200, the booking is gone exactly
\* when one was answered 200, and once all are answered exactly one is 200
\* and every other is 404.
C31_ExactlyOneCancels ==
  \A i \in 1..Len(Times) :
    LET asked == {r \in Batch : req[r].op = "cancelBooking" /\ req[r].id = i}
    IN  /\ \A r \in asked :
             req[r].pc = "done" => req[r].status \in {200, 404}
        /\ Cardinality(Answered(asked, 200)) <= 1
        /\ (Answered(asked, 200) # {}) <=> (\A b \in bookings : b.id # i)
        /\ (asked # {} /\ \A r \in asked : req[r].pc = "done") =>
             /\ Cardinality(Answered(asked, 200)) = 1
             /\ Cardinality(Answered(asked, 404)) = Cardinality(asked) - 1

\* three requests for one booking, each answered from its
\* findByIdAndDelete: one removed the booking and two found it gone
C31_Witness ==
  /\ \A r \in Batch : req[r].pc = "done" /\ req[r].id = 1
                      /\ req[r].at = "delete"
  /\ Cardinality(Answered(Batch, 200)) = 1
  /\ Cardinality(Answered(Batch, 404)) = 2
  /\ \A b \in bookings : b.id # 1

\* C32: for a request served while no other is under way, the first check
\* that fails decides the answer.  On an operator-only route a missing or
\* unknown token gets 401 whatever the store and the body; past the gate, a
\* write route answers 503 while the store is unreachable whatever the
\* body; then a CreateSlot or CreateBooking with a missing field gets 400
\* whatever the slot id names; then a CreateBooking for a well-formed id of
\* no slot gets 404 even when a Booking carries that slot id, and 400 when
\* the slot exists and is booked.
C32_FailurePrecedence ==
  [][(sent'.pc = "done" /\ sent'.alone) =>
       LET q == sent'
           denied == q.op \in Protected /\ q.at = "idle" /\ Unauthorized(q)
           missing ==
             \/ q.op = "createSlot" /\ (Absent(q.date) \/ Absent(q.time))
             \/ /\ q.op = "createBooking"
                /\ \/ q.id = NoId
                   \/ Absent(q.clientName) \/ Absent(q.clientEmail)
       IN  /\ denied => q.status = 401
           /\ (q.op \in WriteRoutes /\ ~denied /\ ~connected) =>
                q.status = 503
           /\ (q.op \in {"createSlot", "createBooking"} /\ ~denied
               /\ connected /\ missing) =>
                q.status = 400 /\ q.at = "idle"
           /\ (q.op = "createBooking" /\ connected /\ ~missing
               /\ q.id \in 1..MaxSlotId) =>
                /\ (\A s \in slots : s.id # q.id) => q.status = 404
                /\ (/\ \E s \in slots : s.id = q.id
                    /\ \E b \in bookings : b.slotId = q.id) =>
                     q.status = 400]_vars

\* a CreateSlot that fails all three checks at once is answered 401
C32_Witness ==
  /\ sent.op = "createSlot" /\ sent.alone /\ sent.status = 401
  /\ Unauthorized(sent) /\ ~connected
  /\ Absent(sent.date) /\ Absent(sent.time)

\* a CreateSlot that passed the gate with a missing field while the store
\* is unreachable is answered 503
C32_WitnessUnavailable ==
  /\ sent.op = "createSlot" /\ sent.alone /\ sent.status = 503
  /\ sent.gate = "passed" /\ ~connected /\ Absent(sent.date)

\* a CreateBooking for a slot id that names no slot, while a Booking still
\* carries that slot id, is answered 404
C32_WitnessNotFoundFirst ==
  /\ sent.op = "createBooking" /\ sent.alone /\ sent.status = 404
  /\ \E b \in bookings : b.slotId = sent.id

\* C33: every request under way is answered in the end, given that every
\* store call it awaits returns or throws; a request stops being under way
\* only in a step that sends its response; and every response sent is the
\* response of exactly one request, either of one that the same step
\* received or of one that was under way, and of no other.
C33_ExactlyOneResponse ==
  /\ \A r \in Pool : (req[r].pc # "idle") ~> (req[r].pc = "idle")
  /\ [][\A r \in Pool :
          (req[r].pc # "idle" /\ req'[r].pc = "idle") =>
            /\ sent'.pc = "done" /\ sent'.status # 0
            /\ sent'.op = req[r].op /\ sent'.at = req[r].pc
            /\ \A o \in Pool \ {r} : ~Stepped(o)]_vars
  /\ [][sent'.pc = "done" =>
          \/ sent'.at = "idle" /\ \A r \in Pool : ~Stepped(r)
          \/ \E r \in Pool : /\ req[r].pc # "idle" /\ req'[r].pc = "idle"
                             /\ sent'.at = req[r].pc]_vars

\* a response sent from a catch block: the connection was lost while a
\* CreateBooking waited between its two lookups
C33_Witness ==
  /\ sent.op = "createBooking" /\ sent.pc = "done"
  /\ sent.at = "findBooking" /\ sent.status = 500 /\ ~connected

\* the times one more selection can store, from the times in T
PickerStep(T) ==
  T \cup {OnHourChange(t, v) : t \in T, v \in HourValues}
    \cup {OnMinuteChange(t, v) : t \in T, v \in MinuteValues}
    \cup {OnMeridiemChange(t, v) : t \in T, v \in MeridiemValues}

RECURSIVE PickerClosure(_)
PickerClosure(T) ==
  IF PickerStep(T) = T THEN T ELSE PickerClosure(PickerStep(T))

\* the times some sequence of selections stores, from the empty form
ReachableTimes == PickerClosure({EmptyForm.time})

\* C34: for every hour 0..23 and minute 0..59 some sequence of hour,
\* minute and AM/PM selections stores the zero-padded 24-hour string
\* 'hh:mm' in newSlot.time, 12:00 to 12:59 included; and the hour and the
\* AM/PM the form displays are those of the stored 24-hour time.
C34_EveryTimeSelectable ==
  /\ \A h \in 0..23, m \in 0..(MinuteOptions - 1) :
       padStart(toString(h)) \o <<":">> \o padStart(toString(m))
         \in ReachableTimes
  /\ newSlot.time # <<>> =>
       LET h == Hour24(newSlot.time)
       IN  /\ parseInt(DisplayedHour(newSlot.time)) =
                IF h % 12 = 0 THEN 12 ELSE h % 12
           /\ DisplayedMeridiem(newSlot.time) =
                IF h >= 12 THEN "PM" ELSE "AM"
====
